---- MODULE Spec2Model ----
(***************************************************************************)
(* Model of the `#[traceback]` attribute macro of traceback-derive         *)
(* (src/src/lib.rs).  The macro parses one function item, runs             *)
(* TracingVisitor over it and emits the rewritten item.  The model keeps   *)
(* the item as a syntax tree, applies the visitor to it, and then runs the *)
(* original and the rewritten function under a small run-time environment  *)
(* so that the behaviour of the emitted code can be compared with the      *)
(* behaviour of the input.                                                 *)
(***************************************************************************)
EXTENDS Integers, Sequences, FiniteSets, TLC

VARIABLES pc, input, output, env, origRes, newRes

vars == <<pc, input, output, env, origRes, newRes>>

\* Largest number of syntax nodes of an input function body.
MaxNodes == 4

(***************************************************************************)
(* Syntax trees.  Every node (expression or type) has a kind, a name (the  *)
(* identifier, literal text, callee, or pattern list; "" when the kind     *)
(* has none) and its children in source order.                             *)
(***************************************************************************)
Node(kind, name, kids) == [kind |-> kind, name |-> name, kids |-> kids]

Path(name) == Node("Path", name, <<>>)
Lit(text) == Node("Lit", text, <<>>)
Call(name, args) == Node("Call", name, args)
Try(e) == Node("Try", "", <<e>>)
Index(e, i) == Node("Index", "", <<e, i>>)

\* Leaves of the input bodies: the literals `5` and `[10, 20, 30]`, the
\* variables `i` and `v`, and the calls `f()` and `g()`.
Leaves ==
  { Lit("5"), Lit("[10, 20, 30]"), Path("i"), Path("v"),
    Call("f", <<>>), Call("g", <<>>) }

\* Expr::Try, Expr::Paren and an immediately invoked closure `(|| e)()`.
UnaryKinds == {"Try", "Paren", "Closure"}

\* Expr::Index `a[b]` and Expr::Tuple `(a, b)`.
BinaryKinds == {"Index", "Tuple"}

RECURSIVE ExprsOfSize(_)
ExprsOfSize(n) ==
  IF n = 1 THEN Leaves
  ELSE { Node(k, "", <<e>>) : k \in UnaryKinds, e \in ExprsOfSize(n - 1) }
       \cup UNION { { Node(k, "", <<a, b>>) :
                        k \in BinaryKinds,
                        a \in ExprsOfSize(j),
                        b \in ExprsOfSize(n - 1 - j) } : j \in 1..(n - 2) }

Bodies == UNION { ExprsOfSize(n) : n \in 1..MaxNodes }

\* Expressions that occur inside the types of a signature (the length of
\* an array type): `5`, `v[5]` and `f()?`.
ConstExprs == { Lit("5"), Index(Path("v"), Lit("5")), Try(Call("f", <<>>)) }

TypePath(name) == Node("TypePath", name, <<>>)
TypeArray(elem, len) == Node("TypeArray", "", <<elem, len>>)

ParamTypes ==
  { TypePath("u8") } \cup { TypeArray(TypePath("u8"), e) : e \in ConstExprs }

\* syn::ItemFn: the signature (name, parameter type, return type) and the
\* body block.
ItemFn(ident, inputs, out, block) ==
  [ident |-> ident, inputs |-> inputs, output |-> out, block |-> block]

Items ==
  { ItemFn("my_function", t, TypePath("Result"), b) :
      t \in ParamTypes, b \in Bodies }

(***************************************************************************)
(* The visitor.                                                            *)
(***************************************************************************)

\* A replacement of `inner?` that lacks the trailing `?`:
\*   { match inner { Ok(val) => Ok(val), Err(e) => Err(traceback!(err e)) } }
TryReplacementNoQuestion(inner_expr) ==
  Node("Block", "",
    << Node("Match", "Ok(val)|Err(e)",
         << inner_expr,
            Call("Ok", << Path("val") >>),
            Call("Err", << Node("Macro", "traceback!(err e)", <<>>) >>) >>) >>)

\* A replacement of `inner?` that passes the failure on as it is:
\*   { match inner { Ok(val) => Ok(val), Err(e) => Err(e) } }?
TryReplacementNoCapture(inner_expr) ==
  Node("Try", "",
    << Node("Block", "",
         << Node("Match", "Ok(val)|Err(e)",
              << inner_expr,
                 Call("Ok", << Path("val") >>),
                 Call("Err", << Path("e") >>) >>) >>) >>)

\* The replacement of `inner?`:
\*   { match inner { Ok(val) => Ok(val), Err(e) => Err(traceback!(err e)) } }?
TryReplacement(inner_expr) ==
  Try(Node("Block", "",
        << Node("Match", "Ok(val)|Err(e)",
             << inner_expr,
                Call("Ok", << Path("val") >>),
                Call("Err", << Node("Macro", "traceback!(err e)", <<>>) >>) >>) >>))

\* A replacement of `inner[index]` whose None arm lacks the `return`:
\*   match inner.get(index) {
\*     Some(value) => value,
\*     None => { Err(traceback!(format!("..{}..{:?}", index, inner))) },
\*   }
IndexReplacementNoReturn(inner_expr, index) ==
  Node("Match", "Some(value)|None",
    << Node("MethodCall", "get", << inner_expr, index >>),
       Path("value"),
       Node("Block", "",
         << Call("Err",
              << Node("Macro", "traceback!(format!)",
                   << index, inner_expr >>) >>) >>) >>)

\* The replacement of `inner[index]`:
\*   match inner.get(index) {
\*     Some(value) => value,
\*     None => { return Err(traceback!(format!("..{}..{:?}", index, inner))); },
\*   }
IndexReplacement(inner_expr, index) ==
  Node("Match", "Some(value)|None",
    << Node("MethodCall", "get", << inner_expr, index >>),
       Path("value"),
       Node("Block", "",
         << Node("Return", "",
              << Call("Err",
                   << Node("Macro", "traceback!(format!)",
                        << index, inner_expr >>) >>) >>) >>) >>)

\* TracingVisitor::visit_expr_mut.  A macro invocation holds tokens, not
\* expressions, so the default traversal does not enter it.
RECURSIVE visit_expr_mut(_)
visit_expr_mut(expr) ==
  CASE expr.kind = "Try" -> TryReplacement(expr.kids[1])
    [] expr.kind = "Index" -> IndexReplacement(expr.kids[1], expr.kids[2])
    [] OTHER ->
         IF expr.kind = "Macro" THEN expr
         ELSE [expr EXCEPT !.kids =
                 [j \in DOMAIN expr.kids |-> visit_expr_mut(expr.kids[j])]]

\* VisitMut::visit_item_fn_mut, with which `traceback` starts the visitor:
\* it walks the signature (whose types hold expressions) and the block.
visit_item_fn_mut(function) ==
  [ident |-> function.ident,
   inputs |-> visit_expr_mut(function.inputs),
   output |-> visit_expr_mut(function.output),
   block |-> visit_expr_mut(function.block)]

\* A macro that runs the visitor over the item a second time.
traceback_twice(function) == visit_item_fn_mut(visit_item_fn_mut(function))

\* The attribute entry point.
traceback(function) == visit_item_fn_mut(function)

(***************************************************************************)
(* Run-time values of the emitted code.                                    *)
(***************************************************************************)
IntV(n) == [tag |-> "Int", n |-> n]
SeqV(elems) == [tag |-> "Seq", elems |-> elems]
TupV(a, b) == [tag |-> "Tuple", elems |-> <<a, b>>]
OkV(v) == [tag |-> "Ok", of |-> v]
ErrV(e) == [tag |-> "Err", of |-> e]
SomeV(v) == [tag |-> "Some", of |-> v]
NoneV == [tag |-> "None"]
\* A shared reference `&v`.
RefV(v) == [tag |-> "Ref", of |-> v]
UnitV == [tag |-> "Unit"]

\* TracebackError: a message (the pieces of the formatted text) and the
\* failure it wraps, if any.
TracebackError(message, parent) ==
  [tag |-> "TracebackError", message |-> message, parent |-> parent]

\* traceback!(err e): a new diagnostic layer around the failure e.
traceback_err(e) == TracebackError(<<>>, <<e>>)

\* traceback!(msg): a new failure carrying msg.
traceback_msg(message) == TracebackError(message, <<>>)

\* The failure wrapped by a diagnostic layer.
Parent(e) == e.parent[1]

\* Number of diagnostic layers around the innermost failure.
RECURSIVE Layers(_)
Layers(e) ==
  IF e.tag = "TracebackError" /\ e.parent # <<>>
  THEN 1 + Layers(Parent(e)) ELSE 0

\* The failure the tasks of the environment return:
\* traceback!("task failed").
TaskError == traceback_msg(<< "task failed" >>)

\* Values of the literals.
LitValue(text) ==
  CASE text = "5" -> IntV(5)
    [] text = "[10, 20, 30]" -> SeqV(<< IntV(10), IntV(20), IntV(30) >>)

\* Keys the variable `i` and the call `g()` can yield: two that are present
\* in every collection of the model and one that is absent.
Keys == {0, 1, 5}

\* Results the call `f()` can yield.
TaskResults == { OkV(IntV(7)), ErrV(TaskError) }

\* The run-time environment: the values of the variables and the results of
\* the calls.  `v` is a collection of results.
Env(key, fres) ==
  [n \in {"i", "v", "f", "g"} |->
     CASE n = "i" -> IntV(key)
       [] n = "g" -> IntV(key)
       [] n = "f" -> fres
       [] n = "v" -> SeqV(<< OkV(IntV(10)), ErrV(TaskError) >>)]

Envs == { Env(k, r) : k \in Keys, r \in TaskResults }

(***************************************************************************)
(* Text: the source form of an expression, and the Display / Debug forms   *)
(* of a value that format! produces for `{}` and `{:?}`.                   *)
(***************************************************************************)
RECURSIVE Render(_)
Render(e) ==
  CASE e.kind \in {"Path", "Lit"} -> e.name
    [] e.kind = "Call" -> e.name \o "()"
    [] e.kind = "Try" -> Render(e.kids[1]) \o "?"
    [] e.kind = "Index" -> Render(e.kids[1]) \o "[" \o Render(e.kids[2]) \o "]"
    [] e.kind = "Paren" -> "(" \o Render(e.kids[1]) \o ")"
    [] e.kind = "Closure" -> "(|| " \o Render(e.kids[1]) \o ")()"
    [] e.kind = "Tuple" ->
         "(" \o Render(e.kids[1]) \o ", " \o Render(e.kids[2]) \o ")"
    [] OTHER -> e.name

RECURSIVE Debug(_)
RECURSIVE DebugList(_)
DebugList(elems) ==
  IF elems = <<>> THEN ""
  ELSE IF Len(elems) = 1 THEN Debug(elems[1])
  ELSE Debug(elems[1]) \o ", " \o DebugList(Tail(elems))

Debug(v) ==
  CASE v.tag = "Int" -> ToString(v.n)
    [] v.tag = "Seq" -> "[" \o DebugList(v.elems) \o "]"
    [] v.tag = "Tuple" -> "(" \o DebugList(v.elems) \o ")"
    [] v.tag = "Ok" -> "Ok(" \o Debug(v.of) \o ")"
    [] v.tag = "Err" -> "Err(" \o Debug(v.of) \o ")"
    [] v.tag = "Ref" -> Debug(v.of)
    [] OTHER -> v.tag

\* `{}` is implemented by the integers of the model only.
Display(v) == ToString(v.n)

\* format!("Error while indexing into {} in variable {:?}", index, inner)
format(index, inner) ==
  << "Error while indexing into ", Display(index),
     " in variable ", Debug(inner) >>

(***************************************************************************)
(* Execution of a body.  An outcome is how control leaves an expression    *)
(* ("value": it yields val; "return": the enclosing function or closure    *)
(* returns val early; "panic": the program faults; "stuck": the            *)
(* expression has no meaning for these values, i.e. it does not            *)
(* type-check), together with the trace of what ran: every call made and   *)
(* every early return taken, each with the position (path of child         *)
(* indices from the body's root) of the node that did it.                  *)
(***************************************************************************)
Outcome(ctl, val, log) == [ctl |-> ctl, val |-> val, log |-> log]

Event(ev, name, at) == [ev |-> ev, name |-> name, at |-> at]

\* Auto-dereference of the receiver of an index or method call.
RECURSIVE Deref(_)
Deref(v) == IF v.tag = "Ref" THEN Deref(v.of) ELSE v

\* The element a key selects: Rust collections are indexed from zero.
HasKey(coll, key) == key.n >= 0 /\ key.n < Len(coll.elems)
Element(coll, key) == coll.elems[key.n + 1]
Indexable(coll, key) == Deref(coll).tag = "Seq" /\ key.tag = "Int"

Bind(name, val, e) == (name :> val) @@ e

RECURSIVE Eval(_, _, _, _)
Eval(e, en, log, at) ==
  CASE e.kind = "Path" ->
         IF e.name \in DOMAIN en THEN Outcome("value", en[e.name], log)
         ELSE Outcome("stuck", UnitV, log)
    [] e.kind = "Lit" -> Outcome("value", LitValue(e.name), log)
    [] e.kind = "Call" /\ e.name \in {"Ok", "Err"} ->
         \* The enum constructors Ok(..) and Err(..).
         LET r == Eval(e.kids[1], en, log, at \o <<1>>) IN
         IF r.ctl # "value" THEN r
         ELSE Outcome("value", [tag |-> e.name, of |-> r.val], r.log)
    [] e.kind = "Call" /\ e.name \notin {"Ok", "Err"} ->
         \* A call of a function of the environment: an observable effect.
         IF e.name \in DOMAIN en
         THEN Outcome("value", en[e.name],
                      Append(log, Event("call", e.name, at)))
         ELSE Outcome("stuck", UnitV, log)
    [] e.kind = "Try" ->
         \* `x?`: Ok(v) yields v, Err(e) returns Err(From::from(e)) early.
         LET r == Eval(e.kids[1], en, log, at \o <<1>>) IN
         IF r.ctl # "value" THEN r
         ELSE IF r.val.tag = "Ok" THEN Outcome("value", r.val.of, r.log)
         ELSE IF r.val.tag = "Err"
         THEN Outcome("return", ErrV(r.val.of),
                      Append(r.log, Event("return", "?", at)))
         ELSE Outcome("stuck", UnitV, r.log)
    [] e.kind = "Index" ->
         \* `c[k]`: the element, or a fault when the key is absent.
         LET rc == Eval(e.kids[1], en, log, at \o <<1>>) IN
         IF rc.ctl # "value" THEN rc
         ELSE LET rk == Eval(e.kids[2], en, rc.log, at \o <<2>>) IN
              IF rk.ctl # "value" THEN rk
              ELSE IF ~Indexable(rc.val, rk.val)
              THEN Outcome("stuck", UnitV, rk.log)
              ELSE IF HasKey(Deref(rc.val), rk.val)
              THEN Outcome("value", Element(Deref(rc.val), rk.val), rk.log)
              ELSE Outcome("panic", UnitV, rk.log)
    [] e.kind = "MethodCall" ->
         \* `c.get(k)`: Some(&element) or None.
         LET rc == Eval(e.kids[1], en, log, at \o <<1>>) IN
         IF rc.ctl # "value" THEN rc
         ELSE LET rk == Eval(e.kids[2], en, rc.log, at \o <<2>>) IN
              IF rk.ctl # "value" THEN rk
              ELSE IF ~Indexable(rc.val, rk.val)
              THEN Outcome("stuck", UnitV, rk.log)
              ELSE IF HasKey(Deref(rc.val), rk.val)
              THEN Outcome("value",
                           SomeV(RefV(Element(Deref(rc.val), rk.val))), rk.log)
              ELSE Outcome("value", NoneV, rk.log)
    [] e.kind \in {"Paren", "Block"} -> Eval(e.kids[1], en, log, at \o <<1>>)
    [] e.kind = "Tuple" ->
         LET ra == Eval(e.kids[1], en, log, at \o <<1>>) IN
         IF ra.ctl # "value" THEN ra
         ELSE LET rb == Eval(e.kids[2], en, ra.log, at \o <<2>>) IN
              IF rb.ctl # "value" THEN rb
              ELSE Outcome("value", TupV(ra.val, rb.val), rb.log)
    [] e.kind = "Closure" ->
         \* `(|| body)()`: an early return inside the body ends the closure,
         \* and the call yields the returned value.
         LET r == Eval(e.kids[1], en, log, at \o <<1>>) IN
         IF r.ctl = "return" THEN Outcome("value", r.val, r.log) ELSE r
    [] e.kind = "Return" ->
         LET r == Eval(e.kids[1], en, log, at \o <<1>>) IN
         IF r.ctl # "value" THEN r
         ELSE Outcome("return", r.val,
                      Append(r.log, Event("return", "return", at)))
    [] e.kind = "Match" ->
         LET r == Eval(e.kids[1], en, log, at \o <<1>>) IN
         IF r.ctl # "value" THEN r
         ELSE IF e.name = "Ok(val)|Err(e)" /\ r.val.tag = "Ok"
         THEN Eval(e.kids[2], Bind("val", r.val.of, en), r.log, at \o <<2>>)
         ELSE IF e.name = "Ok(val)|Err(e)" /\ r.val.tag = "Err"
         THEN Eval(e.kids[3], Bind("e", r.val.of, en), r.log, at \o <<3>>)
         ELSE IF e.name = "Ok(_)|Err(e)" /\ r.val.tag = "Ok"
         THEN Eval(e.kids[2], en, r.log, at \o <<2>>)
         ELSE IF e.name = "Ok(_)|Err(e)" /\ r.val.tag = "Err"
         THEN Eval(e.kids[3], Bind("e", r.val.of, en), r.log, at \o <<3>>)
         ELSE IF e.name = "Some(value)|None" /\ r.val.tag = "Some"
         THEN Eval(e.kids[2], Bind("value", r.val.of, en), r.log, at \o <<2>>)
         ELSE IF e.name = "Some(value)|None" /\ r.val.tag = "None"
         THEN Eval(e.kids[3], en, r.log, at \o <<3>>)
         ELSE Outcome("stuck", UnitV, r.log)
    [] e.kind = "Macro" /\ e.name = "traceback!(err e)" ->
         IF "e" \in DOMAIN en
         THEN Outcome("value", traceback_err(en["e"]), log)
         ELSE Outcome("stuck", UnitV, log)
    [] e.kind = "Macro" /\ e.name = "traceback!(format!)" ->
         \* format! evaluates its arguments in order: the key, then the
         \* collection.
         LET rk == Eval(e.kids[1], en, log, at \o <<1>>) IN
         IF rk.ctl # "value" THEN rk
         ELSE LET rc == Eval(e.kids[2], en, rk.log, at \o <<2>>) IN
              IF rc.ctl # "value" THEN rc
              ELSE IF rk.val.tag # "Int"
              THEN Outcome("stuck", UnitV, rc.log)
              ELSE Outcome("value", traceback_msg(format(rk.val, rc.val)),
                           rc.log)
    [] e.kind = "Unit" -> Outcome("value", UnitV, log)
    [] OTHER -> Outcome("stuck", UnitV, log)

\* Running a function: its body is evaluated at the root position; a value
\* that reaches the end is the function's result ("value"), an early
\* return that reaches the root ends the function ("return").
RunFn(function, en) == Eval(function.block, en, <<>>, <<>>)

(***************************************************************************)
(* The state machine: a parsed item is rewritten by the macro, then the    *)
(* input and the output are run under one environment.                     *)
(***************************************************************************)
NoEnv == [n \in {} |-> UnitV]
NoRun == Outcome("none", UnitV, <<>>)

Init ==
  /\ pc = "parsed"
  /\ input \in Items
  /\ output = input
  /\ env = NoEnv
  /\ origRes = NoRun
  /\ newRes = NoRun

\* #[traceback]: parse, visit the item, emit it.
Traceback ==
  /\ pc = "parsed"
  /\ output' = traceback(input)
  /\ pc' = "emitted"
  /\ UNCHANGED <<input, env, origRes, newRes>>

\* The unannotated and the annotated function are called in an environment.
Run ==
  /\ pc = "emitted"
  /\ \E en \in Envs :
       /\ env' = en
       /\ origRes' = RunFn(input, en)
       /\ newRes' = RunFn(output, en)
  /\ pc' = "ran"
  /\ UNCHANGED <<input, output>>

Next == Traceback \/ Run

Spec == Init /\ [][Next]_vars

(***************************************************************************)
(* Positions.  A position is the path of child indices from the root of a  *)
(* body.  Macro invocations hold tokens, so their contents are not         *)
(* expression nodes and have no positions.                                 *)
(***************************************************************************)
RECURSIVE Paths(_)
Paths(t) ==
  {<<>>} \cup
  (IF t.kind = "Macro" THEN {}
   ELSE UNION { { <<j>> \o q : q \in Paths(t.kids[j]) } : j \in DOMAIN t.kids })

RECURSIVE NodeAt(_, _)
NodeAt(t, p) == IF p = <<>> THEN t ELSE NodeAt(t.kids[Head(p)], Tail(p))

Nodes(t) == { NodeAt(t, p) : p \in Paths(t) }

IsPrefix(q, p) == Len(q) <= Len(p) /\ SubSeq(p, 1, Len(q)) = q

ProperPrefixes(p) == { SubSeq(p, 1, n) : n \in 0..(Len(p) - 1) }

\* The two shapes the visitor matches.
Matched(n) == n.kind \in {"Try", "Index"}

\* The positions of a tree on which visit_expr_mut is called: the root,
\* and the children of every node that takes the default arm.  The Try and
\* Index arms replace the node without visiting its children.
Reached(t, p) ==
  \A q \in ProperPrefixes(p) : NodeAt(t, q).kind \notin {"Try", "Index", "Macro"}

\* Positions of the nodes of kind k that the visitor rewrites.
Rewritten(t, k) ==
  { p \in Paths(t) : Reached(t, p) /\ NodeAt(t, p).kind = k }

\* The names of the calls of a trace, in order.
RECURSIVE CallNames(_)
CallNames(log) ==
  IF log = <<>> THEN <<>>
  ELSE (IF Head(log).ev = "call" THEN << Head(log).name >> ELSE <<>>)
       \o CallNames(Tail(log))

\* An expression of the input run on its own at position p.
EvalAt(t, p) == Eval(NodeAt(t, p), env, <<>>, p)

(***************************************************************************)
(* Coverage of the traversal.                                              *)
(***************************************************************************)

\* A `?` node the visitor synthesized: `{ match .. }?`.
IsTryWrap(n) ==
  /\ n.kind = "Try"
  /\ n.kids[1].kind = "Block"
  /\ n.kids[1].kids[1].kind = "Match"
  /\ n.kids[1].kids[1].name = "Ok(val)|Err(e)"

\* The replacement of an indexing node: `match c.get(k) { .. }`.
IsIndexWrap(n) ==
  /\ n.kind = "Match"
  /\ n.name = "Some(value)|None"
  /\ n.kids[1].kind = "MethodCall"

\* A node of one of the two matched shapes that is not part of a wrapped
\* form: an indexing node, or a `?` the visitor did not synthesize.
Unrewritten(n) == n.kind = "Index" \/ (n.kind = "Try" /\ ~IsTryWrap(n))

\* C1: after the pass no `?` node and no indexing node of the input body
\* survives un-rewritten, at whatever depth and under whatever ancestor it
\* was, another `?` or indexing node included.
C1_NoOriginalSurvives ==
  pc # "parsed" => \A n \in Nodes(output.block) : ~Unrewritten(n)

\* C2: `collection[key]?` is rewritten at both nodes (the indexing rewrite
\* nested inside the short-circuit rewrite), so that an absent key yields an
\* early return of a failure with two diagnostic layers: the one the
\* indexing rewrite creates, wrapped by the one the `?` rewrite adds.
C2_TryOverIndexDoublyWrapped ==
  (/\ pc = "ran"
   /\ input.block.kind = "Try"
   /\ input.block.kids[1].kind = "Index"
   /\ origRes.ctl = "panic")
  => /\ output.block =
          TryReplacement(IndexReplacement(input.block.kids[1].kids[1],
                                          input.block.kids[1].kids[2]))
     /\ newRes.ctl = "return"
     /\ newRes.val.tag = "Err"
     /\ Layers(newRes.val.of) = 1
     /\ Parent(newRes.val.of).message # <<>>

\* C3: the emitted function has the name, the parameter list and the return
\* type of the input, also when a `?` or an indexing expression occurs in
\* the signature.
C3_SignaturePreserved ==
  pc # "parsed" => /\ output.ident = input.ident
                   /\ output.inputs = input.inputs
                   /\ output.output = input.output

\* C9: the visitor never enters a subtree it synthesized.  At every
\* position it rewrites, the wrapped form stands with the operands of the
\* input node inside it exactly as they were (so the synthesized `?`,
\* `match` and `.get(..)` were not rewritten and nothing is wrapped twice);
\* at every other position it reaches, the node of the input survives.
C9_NoReentry ==
  pc # "parsed" =>
    \A p \in Paths(input.block) :
      Reached(input.block, p) =>
        /\ p \in Paths(output.block)
        /\ LET n == NodeAt(input.block, p)
               w == NodeAt(output.block, p)
           IN CASE n.kind = "Try" ->
                     /\ IsTryWrap(w)
                     /\ w.kids[1].kids[1].kids[1] = n.kids[1]
                     /\ w.kids[1].kids[1].kids[2] = Call("Ok", << Path("val") >>)
                [] n.kind = "Index" ->
                     /\ IsIndexWrap(w)
                     /\ w.kids[1].kids = n.kids
                     /\ w.kids[2] = Path("value")
                [] OTHER ->
                     /\ w.kind = n.kind
                     /\ w.name = n.name
                     /\ Len(w.kids) = Len(n.kids)

\* A pass has rewritten a node that has a `?` or indexing node inside its
\* operand, and the operand stands unchanged inside the wrapped form.
C9_Witness ==
  /\ pc = "emitted"
  /\ \E p \in Rewritten(input.block, "Try") \cup Rewritten(input.block, "Index") :
       /\ \E n \in Nodes(NodeAt(input.block, p)) \ {NodeAt(input.block, p)} :
            Matched(n)
       /\ NodeAt(input.block, p).kids[1] \in Nodes(NodeAt(output.block, p))

(***************************************************************************)
(* Behaviour of the rewritten `?` nodes.                                   *)
(***************************************************************************)

\* The hand-written form of the crate documentation:
\*   match x { Ok(_) => {} Err(e) => { return Err(traceback!(err e)); } }
HandWritten(x) ==
  Node("Match", "Ok(_)|Err(e)",
    << x,
       Node("Unit", "", <<>>),
       Node("Block", "",
         << Node("Return", "",
              << Call("Err", << Node("Macro", "traceback!(err e)", <<>>) >>) >>) >>) >>)

\* C4: a rewritten `?` node whose inner expression yields the success value
\* Ok(v) yields exactly v at its position, with no early return, as the
\* unrewritten node does, and after the same calls.
C4_SuccessTransparent ==
  pc = "ran" =>
    \A p \in Rewritten(input.block, "Try") :
      LET inner == EvalAt(input.block, p \o <<1>>)
          orig == EvalAt(input.block, p)
          new == EvalAt(output.block, p)
      IN (inner.ctl = "value" /\ inner.val.tag = "Ok") =>
           /\ new.ctl = "value"
           /\ new.val = inner.val.of
           /\ new.ctl = orig.ctl
           /\ new.val = orig.val
           /\ CallNames(new.log) = CallNames(orig.log)

\* A rewritten `?` node has run on a success value and yielded it.
C4_Witness ==
  /\ pc = "ran"
  /\ \E p \in Rewritten(input.block, "Try") :
       /\ EvalAt(input.block, p \o <<1>>).ctl = "value"
       /\ EvalAt(input.block, p \o <<1>>).val.tag = "Ok"
       /\ EvalAt(output.block, p).ctl = "value"
       /\ newRes.ctl = "value"

OperandsEvaluate(p) ==
  /\ EvalAt(input.block, p \o <<1>>).ctl = "value"
  /\ EvalAt(input.block, p \o <<2>>).ctl = "value"
  /\ Indexable(EvalAt(input.block, p \o <<1>>).val,
               EvalAt(input.block, p \o <<2>>).val)

KeyPresent(p) ==
  /\ OperandsEvaluate(p)
  /\ HasKey(Deref(EvalAt(input.block, p \o <<1>>).val),
            EvalAt(input.block, p \o <<2>>).val)

KeyAbsent(p) ==
  /\ OperandsEvaluate(p)
  /\ ~HasKey(Deref(EvalAt(input.block, p \o <<1>>).val),
             EvalAt(input.block, p \o <<2>>).val)

\* The text t is embedded in the message of the failure e.
Embeds(e, t) == \E j \in DOMAIN e.message : e.message[j] = t

\* C6: a rewritten indexing node whose key is absent does not fault: it
\* returns early with a diagnostic failure whose message embeds the source
\* text of the key expression and the source text of the collection
\* expression, whatever the two expressions are.
C6_AbsentKeyMessageHasSourceText ==
  pc = "ran" =>
    \A p \in Rewritten(input.block, "Index") :
      LET n == NodeAt(input.block, p)
          new == EvalAt(output.block, p)
      IN KeyAbsent(p) =>
           /\ new.ctl = "return"
           /\ new.val.tag = "Err"
           /\ new.val.of.tag = "TracebackError"
           /\ Embeds(new.val.of, Render(n.kids[2]))
           /\ Embeds(new.val.of, Render(n.kids[1]))

\* C7: a rewritten indexing node whose key is present yields, at its
\* position, the value the direct indexing yields, with no early return.
C7_PresentKeySameValue ==
  pc = "ran" =>
    \A p \in Rewritten(input.block, "Index") :
      LET orig == EvalAt(input.block, p)
          new == EvalAt(output.block, p)
      IN KeyPresent(p) => new.ctl = "value" /\ new.val = orig.val

\* C10: the replacement of an indexing node evaluates the collection and the
\* key as often as the indexing node did, whether the key is present or
\* absent: the same calls are made, in the same order.
C10_OperandsEvaluatedOnce ==
  pc = "ran" =>
    \A p \in Rewritten(input.block, "Index") :
      LET orig == EvalAt(input.block, p)
          new == EvalAt(output.block, p)
      IN (KeyPresent(p) \/ KeyAbsent(p)) =>
           CallNames(new.log) = CallNames(orig.log)

(***************************************************************************)
(* Propagation of the failures of the rewritten nodes.                     *)
(***************************************************************************)

\* Where the early return of a rewritten node is taken in the output: the
\* synthesized `?` stands at the node's position, the synthesized `return`
\* in the block of the None arm.
FailureSite(p) ==
  IF NodeAt(input.block, p).kind = "Try" THEN p ELSE p \o <<3, 1>>

RewrittenNodes ==
  Rewritten(input.block, "Try") \cup Rewritten(input.block, "Index")

\* The rewritten node at p is evaluated and takes its failure path.
Fails(p) ==
  IF NodeAt(input.block, p).kind = "Try"
  THEN /\ EvalAt(input.block, p \o <<1>>).ctl = "value"
       /\ EvalAt(input.block, p \o <<1>>).val.tag = "Err"
  ELSE KeyAbsent(p)

\* The closures of the output around position p.
ClosuresAround(p) ==
  { q \in ProperPrefixes(p) : NodeAt(output.block, q).kind = "Closure" }

Innermost(qs) == CHOOSE q \in qs : \A r \in qs : Len(r) <= Len(q)

DiagnosticFailure(v) == v.tag = "Err" /\ v.of.tag = "TracebackError"

====
